---- MODULE Spec2Model ----
(***************************************************************************)
(* LeannVault: the content-addressed file tracker (core/tracker.py), the   *)
(* admission adapter (core/indexer.py), the reconcile pass of the `sync`   *)
(* command (cli/main.py, web/api.py) and the query resolver                *)
(* (core/searcher.py), over a small file system.                           *)
(***************************************************************************)
EXTENDS Integers, Sequences, FiniteSets, TLC

\* ------------------------------------------------------------------ bounds
NContents == 3      \* distinct byte contents a file may hold
MaxOps == 2         \* calls of the program's operations in one behaviour
MaxFsOps == 2       \* file-system changes in one behaviour
MaxTopK == 2        \* hits the engine returns for one query
MaxStoreFsOps == 1  \* file-system changes between direct calls of the store
MaxConcOps == 1     \* single-transaction calls of other callers beside the two workers
MaxLimit == 3       \* largest limit passed to list_all and search_files
MaxOffset == 4      \* largest offset passed to list_all
MaxTicks == 2       \* distinct readings of the clock while a listed store was filled

\* ------------------------------------------------------------- file system
\* A path is <<parent directory, stem, suffix>>; where only equality of
\* str(path) matters it is the tuple, and path_chars(path) is its text.
PathA == <<"/d", "a", ".pdf">>
PathB == <<"/d", "b", ".PDF">>
PathC == <<"/d/s", "c", ".docx">>
PathN == <<"/e", "n", ".txt">>
PathX == <<"/e", "x", ".pdf">>
Paths == {PathA, PathB, PathC, PathN, PathX}

\* Directories that exist; "/gone" is a scan root that does not.
Dirs == {"/d", "/d/s", "/e"}
ScanRoots == Dirs \cup {"/gone"}

Contents == 1..NContents

\* min_text_length as callers pass it: the default and a lower floor
DEFAULT_MIN_TEXT_LENGTH == 50
MinLengths == {DEFAULT_MIN_TEXT_LENGTH, 20}

\* The state of one path: no file, or a file with its bytes and whether it
\* can be opened for reading.
NoFile == [bytes |-> 0, readable |-> FALSE]
FileStates == {NoFile} \cup [bytes : Contents, readable : BOOLEAN]

parent(p) == p[1]
suffix(p) == p[3]

\* str.lower() on the suffixes in use
lower(s) == IF s = ".PDF" THEN ".pdf" ELSE s

\* Path.exists() / Path.is_file()
exists(fsx, p) == fsx[p] # NoFile

\* mutant: the directory check is left out
dir_exists_unchecked(d) == TRUE

\* directory.exists()
dir_exists(d) == d \in Dirs

\* parent directory of a directory ("/" for the top level)
dir_parent(d) == IF d = "/d/s" THEN "/d" ELSE "/"

\* directory.glob("**/*" if recursive else "*"): the entries under root
glob(fsx, root, recursive) ==
    {p \in Paths : /\ exists(fsx, p)
                   /\ \/ parent(p) = root
                      \/ recursive /\ dir_parent(parent(p)) = root}

\* st_size of a file holding these bytes
st_size(b) == (b + 1) \div 2

\* Indexer.SUPPORTED_EXTENSIONS
SUPPORTED_EXTENSIONS == {".pdf", ".pptx", ".docx", ".json"}

\* --------------------------------------------------------------- identity
\* FileTracker.compute_hash: SHA-256 of the bytes, as a hex digest.  The
\* digest depends on the bytes alone and distinct bytes give distinct digests.
sha256(b) == <<"sha256", b>>
IoError == <<"IOError", 0>>
\* content_hash=None, the default of add_file
NoHash == <<"None", 0>>
compute_hash(fsx, p) ==
    IF exists(fsx, p) /\ fsx[p].readable THEN sha256(fsx[p].bytes) ELSE IoError
Hashes == {sha256(b) : b \in Contents}

\* ------------------------------------------------------------------ state
VARIABLES
    fs,        \* Paths -> FileStates: the disk
    files,     \* the rows of table `files`
    clock,     \* the next value datetime.now() returns
    index,     \* metadata of the documents in the LEANN index ({} before a build)
    ready,     \* the index's .meta.json descriptor exists
    fsops,     \* file-system changes so far
    nops,      \* operations called so far
    last,      \* the last operation, its inputs and what it returned
    workers,   \* each concurrent caller's position in the call it is making
    page_state,    \* the vault page of the interactive UI: gr.State(1)
    filter_input   \* the text of the vault page's filter box

vars == <<fs, files, clock, index, ready, fsops, nops, last, workers, page_state,
          filter_input>>

\* the concurrent callers, and a caller that is not inside a call
Workers == {1, 2}
Idle == [pc |-> "idle"]

None == [none |-> TRUE]

\* the empty filter box of the vault page
Blank == <<>>

\* ------------------------------------------------------------ FileTracker
\* SELECT * FROM files WHERE content_hash = ? ; fetchone()
rows_by_hash(F, h) == {r \in F : r.content_hash = h}
get_by_hash(F, h) ==
    IF rows_by_hash(F, h) = {} THEN None ELSE CHOOSE r \in rows_by_hash(F, h) : TRUE

\* SELECT * FROM files WHERE current_path = ? ; fetchone(): what the call may
\* return.  current_path is not a key: of several matching rows SQLite hands
\* back one, and the query does not fix which.
rows_by_path(F, p) == {r \in F : r.current_path = p}

\* mutant: only rows with is_valid = 1 are looked up
get_by_path_valid(F, p) ==
    IF {r \in rows_by_path(F, p) : r.is_valid} = {} THEN {None}
    ELSE {r \in rows_by_path(F, p) : r.is_valid}

get_by_path(F, p) == IF rows_by_path(F, p) = {} THEN {None} ELSE rows_by_path(F, p)

\* mutant: a plain INSERT into a table without the primary key
upsert_row_inserts(F, h, p, sz, now) ==
    F \cup {[content_hash |-> h, current_path |-> p, original_path |-> p,
             file_type |-> lower(suffix(p)), size_bytes |-> sz,
             indexed_at |-> now, last_seen_at |-> now, is_valid |-> TRUE]}

\* mutant: the UPDATE on conflict also sets indexed_at
upsert_row_resets(F, h, p, sz, now) ==
    IF rows_by_hash(F, h) = {}
    THEN F \cup {[content_hash |-> h, current_path |-> p, original_path |-> p,
                  file_type |-> lower(suffix(p)), size_bytes |-> sz,
                  indexed_at |-> now, last_seen_at |-> now, is_valid |-> TRUE]}
    ELSE {IF r.content_hash = h
          THEN [r EXCEPT !.current_path = p, !.last_seen_at = now, !.is_valid = TRUE,
                         !.indexed_at = now]
          ELSE r : r \in F}

\* mutant: the UPDATE on conflict also sets original_path, file_type, size_bytes
upsert_row_rewrites_origin(F, h, p, sz, now) ==
    IF rows_by_hash(F, h) = {}
    THEN F \cup {[content_hash |-> h, current_path |-> p, original_path |-> p,
                  file_type |-> lower(suffix(p)), size_bytes |-> sz,
                  indexed_at |-> now, last_seen_at |-> now, is_valid |-> TRUE]}
    ELSE {IF r.content_hash = h
          THEN [r EXCEPT !.current_path = p, !.last_seen_at = now, !.is_valid = TRUE,
                         !.original_path = p, !.file_type = lower(suffix(p)),
                         !.size_bytes = sz]
          ELSE r : r \in F}

\* mutant: the UPDATE on conflict is torn, last_seen_at is not written with
\* current_path and is_valid
upsert_row_torn(F, h, p, sz, now) ==
    IF rows_by_hash(F, h) = {}
    THEN F \cup {[content_hash |-> h, current_path |-> p, original_path |-> p,
                  file_type |-> lower(suffix(p)), size_bytes |-> sz,
                  indexed_at |-> now, last_seen_at |-> now, is_valid |-> TRUE]}
    ELSE {IF r.content_hash = h
          THEN [r EXCEPT !.current_path = p, !.is_valid = TRUE]
          ELSE r : r \in F}

\* INSERT ... ON CONFLICT(content_hash) DO UPDATE SET current_path, last_seen_at, is_valid
upsert_row(F, h, p, sz, now) ==
    IF rows_by_hash(F, h) = {}
    THEN F \cup {[content_hash |-> h, current_path |-> p, original_path |-> p,
                  file_type |-> lower(suffix(p)), size_bytes |-> sz,
                  indexed_at |-> now, last_seen_at |-> now, is_valid |-> TRUE]}
    ELSE {IF r.content_hash = h
          THEN [r EXCEPT !.current_path = p, !.last_seen_at = now, !.is_valid = TRUE]
          ELSE r : r \in F}

\* FileTracker.add_file with content_hash supplied (original_path defaulted)
add_file(F, fsx, p, h, now) == upsert_row(F, h, p, st_size(fsx[p].bytes), now)

\* mutant: the UPDATE leaves current_path as it was
update_path_keeps_path(F, h, p, now) ==
    {IF r.content_hash = h
     THEN [r EXCEPT !.last_seen_at = now, !.is_valid = TRUE]
     ELSE r : r \in F}

\* mutant: the UPDATE has no WHERE clause
update_path_all_rows(F, h, p, now) ==
    {[r EXCEPT !.current_path = p, !.last_seen_at = now, !.is_valid = TRUE] : r \in F}

\* mutant: the row is inserted when the content hash has none
update_path_inserts(F, h, p, now) ==
    IF rows_by_hash(F, h) = {}
    THEN F \cup {[content_hash |-> h, current_path |-> p, original_path |-> p,
                  file_type |-> lower(suffix(p)), size_bytes |-> 0,
                  indexed_at |-> now, last_seen_at |-> now, is_valid |-> TRUE]}
    ELSE {IF r.content_hash = h
          THEN [r EXCEPT !.current_path = p, !.last_seen_at = now, !.is_valid = TRUE]
          ELSE r : r \in F}

\* FileTracker.update_path: UPDATE files SET current_path, last_seen_at, is_valid = 1
update_path(F, h, p, now) ==
    {IF r.content_hash = h
     THEN [r EXCEPT !.current_path = p, !.last_seen_at = now, !.is_valid = TRUE]
     ELSE r : r \in F}

\* mutant: the row is deleted instead of flagged
mark_invalid_deletes(F, h) == {r \in F : r.content_hash # h}

\* mutant: the UPDATE also puts current_path back to original_path
mark_invalid_resets_path(F, h) ==
    {IF r.content_hash = h
     THEN [r EXCEPT !.is_valid = FALSE, !.current_path = r.original_path]
     ELSE r : r \in F}

\* FileTracker.mark_invalid: UPDATE files SET is_valid = 0
mark_invalid(F, h) ==
    {IF r.content_hash = h THEN [r EXCEPT !.is_valid = FALSE] ELSE r : r \in F}

\* mutant: DELETE FROM files without the WHERE clause
delete_all(F, h) == IF rows_by_hash(F, h) = {} THEN F ELSE {}

\* FileTracker.delete: DELETE FROM files WHERE content_hash = ?
delete(F, h) == {r \in F : r.content_hash # h}

\* FileTracker.count
count(F, valid_only) == Cardinality({r \in F : ~valid_only \/ r.is_valid})

\* FileTracker.list_all without limit: ORDER BY indexed_at DESC.  Rows that
\* share indexed_at come in an order SQLite does not fix.
RECURSIVE list_all_from(_)
list_all_from(R) ==
    IF R = {} THEN <<>>
    ELSE LET r == CHOOSE x \in R : \A y \in R : y.indexed_at <= x.indexed_at
         IN <<r>> \o list_all_from(R \ {r})
\* mutant: rows with is_valid = 0 are never listed
list_all_valid(F, valid_only) == list_all_from({r \in F : r.is_valid})

list_all(F, valid_only) == list_all_from({r \in F : ~valid_only \/ r.is_valid})

\* limit=None / offset=None, the defaults of list_all
NoArg == -1

\* the first n elements of a sequence: LIMIT n
take(seq, n) == SubSeq(seq, 1, IF n < Len(seq) THEN n ELSE Len(seq))

\* mutant: OFFSET is never appended to the query
list_all_page_no_offset(F, valid_only, limit, offset) ==
    IF limit = NoArg THEN list_all(F, valid_only)
    ELSE take(list_all(F, valid_only), limit)

\* FileTracker.list_all with limit and offset: LIMIT ? is appended when limit
\* is given, OFFSET ? only inside that branch.  For one store SQLite hands
\* rows that share indexed_at back in one order, whatever LIMIT and OFFSET.
list_all_page(F, valid_only, limit, offset) ==
    LET rows == list_all(F, valid_only)
        skip == IF limit # NoArg /\ offset # NoArg THEN offset ELSE 0
    IN IF limit = NoArg THEN rows
       ELSE take(SubSeq(rows, skip + 1, Len(rows)), limit)

\* the characters of the path components in use
chars(s) ==
    CASE s = "/d" -> <<"/", "d">>
      [] s = "/d/s" -> <<"/", "d", "/", "s">>
      [] s = "/e" -> <<"/", "e">>
      [] s = ".pdf" -> <<".", "p", "d", "f">>
      [] s = ".PDF" -> <<".", "P", "D", "F">>
      [] s = ".docx" -> <<".", "d", "o", "c", "x">>
      [] s = ".txt" -> <<".", "t", "x", "t">>
      [] OTHER -> <<s>>

\* str(path): the text stored in current_path
path_chars(p) == chars(p[1]) \o <<"/">> \o chars(p[2]) \o chars(p[3])

\* LIKE compares ASCII letters without regard to case
lower_char(c) ==
    CASE c = "A" -> "a"
      [] c = "D" -> "d"
      [] c = "F" -> "f"
      [] c = "P" -> "p"
      [] OTHER -> c

\* SQLite's `text LIKE pattern` without ESCAPE: % stands for any run of
\* characters, _ for any one character
RECURSIVE like(_, _)
like(pattern, text) ==
    IF pattern = <<>> THEN text = <<>>
    ELSE IF Head(pattern) = "%"
         THEN \/ like(Tail(pattern), text)
              \/ text # <<>> /\ like(pattern, Tail(text))
         ELSE /\ text # <<>>
              /\ \/ Head(pattern) = "_"
                 \/ lower_char(Head(pattern)) = lower_char(Head(text))
              /\ like(Tail(pattern), Tail(text))

\* FileTracker.search_files: WHERE current_path LIKE '%name_query%'
\* ORDER BY indexed_at DESC LIMIT ?
search_files(F, name_query, limit) ==
    take(list_all_from({r \in F : like(<<"%">> \o name_query \o <<"%">>,
                                       path_chars(r.current_path))}),
         limit)

\* mutant: a missing path is counted and the row left as it was
verify_step_keeps_valid(acc, fsx, record) ==
    IF exists(fsx, record.current_path)
    THEN [files |-> update_path(acc.files, record.content_hash,
                                record.current_path, acc.clock),
          clock |-> acc.clock + 1,
          valid |-> acc.valid + 1, invalid |-> acc.invalid]
    ELSE [acc EXCEPT !.invalid = @ + 1]

\* FileTracker.verify_paths, the body of its loop for one listed record:
\* update_path (with its own datetime.now()) when the path exists, else
\* mark_invalid.
verify_step(acc, fsx, record) ==
    IF exists(fsx, record.current_path)
    THEN [files |-> update_path(acc.files, record.content_hash,
                                record.current_path, acc.clock),
          clock |-> acc.clock + 1,
          valid |-> acc.valid + 1, invalid |-> acc.invalid]
    ELSE [files |-> mark_invalid(acc.files, record.content_hash),
          clock |-> acc.clock,
          valid |-> acc.valid, invalid |-> acc.invalid + 1]

RECURSIVE verify_loop(_, _, _, _)
verify_loop(acc, fsx, recs, i) ==
    IF i > Len(recs) THEN acc
    ELSE verify_loop(verify_step(acc, fsx, recs[i]), fsx, recs, i + 1)

\* FileTracker.verify_paths: [files, clock, valid, invalid]
verify_paths(F, fsx, clk) ==
    verify_loop([files |-> F, clock |-> clk, valid |-> 0, invalid |-> 0],
                fsx, list_all(F, FALSE), 1)

\* ------------------------------------------------------------- reconcile
\* mutant: a file without a row is admitted by the discovery loop
sync_step_admits_new(acc, fsx, file_path) ==
    IF lower(suffix(file_path)) \notin SUPPORTED_EXTENSIONS THEN acc
    ELSE LET content_hash == compute_hash(fsx, file_path)
             existing == get_by_hash(acc.files, content_hash)
         IN IF content_hash = IoError THEN [acc EXCEPT !.status = "raised"]
            ELSE IF existing = None
            THEN [acc EXCEPT !.files = add_file(acc.files, fsx, file_path,
                                                content_hash, acc.clock),
                             !.clock = @ + 1,
                             !.new = @ + 1]
            ELSE IF existing.current_path # file_path
            THEN [acc EXCEPT !.files = update_path(acc.files, content_hash,
                                                   file_path, acc.clock),
                             !.clock = @ + 1,
                             !.moved = @ + 1]
            ELSE acc

\* mutant: a file whose row is invalid is counted as new and left alone
sync_step_invalid_is_new(acc, fsx, file_path) ==
    IF lower(suffix(file_path)) \notin SUPPORTED_EXTENSIONS THEN acc
    ELSE LET content_hash == compute_hash(fsx, file_path)
             existing == get_by_hash(acc.files, content_hash)
         IN IF content_hash = IoError THEN [acc EXCEPT !.status = "raised"]
            ELSE IF existing = None THEN [acc EXCEPT !.new = @ + 1]
            ELSE IF ~existing.is_valid THEN [acc EXCEPT !.new = @ + 1]
            ELSE IF existing.current_path # file_path
            THEN [acc EXCEPT !.files = update_path(acc.files, content_hash,
                                                   file_path, acc.clock),
                             !.clock = @ + 1,
                             !.moved = @ + 1]
            ELSE acc

\* mutant: a file whose row already has its path is counted as new
sync_step_counts_known(acc, fsx, file_path) ==
    IF lower(suffix(file_path)) \notin SUPPORTED_EXTENSIONS THEN acc
    ELSE LET content_hash == compute_hash(fsx, file_path)
             existing == get_by_hash(acc.files, content_hash)
         IN IF content_hash = IoError THEN [acc EXCEPT !.status = "raised"]
            ELSE IF existing = None THEN [acc EXCEPT !.new = @ + 1]
            ELSE IF existing.current_path # file_path
            THEN [acc EXCEPT !.files = update_path(acc.files, content_hash,
                                                   file_path, acc.clock),
                             !.clock = @ + 1,
                             !.moved = @ + 1]
            ELSE [acc EXCEPT !.new = @ + 1]

\* The body of the discovery loop of `sync` for one globbed entry; status
\* becomes "raised" when compute_hash cannot read the file.
sync_step(acc, fsx, file_path) ==
    IF lower(suffix(file_path)) \notin SUPPORTED_EXTENSIONS THEN acc
    ELSE LET content_hash == compute_hash(fsx, file_path)
             existing == get_by_hash(acc.files, content_hash)
         IN IF content_hash = IoError THEN [acc EXCEPT !.status = "raised"]
            ELSE IF existing = None THEN [acc EXCEPT !.new = @ + 1]
            ELSE IF existing.current_path # file_path
            THEN [acc EXCEPT !.files = update_path(acc.files, content_hash,
                                                   file_path, acc.clock),
                             !.clock = @ + 1,
                             !.moved = @ + 1]
            ELSE acc

\* the discovery loop over the walk order `walk`; an exception ends it
RECURSIVE sync_loop(_, _, _, _)
sync_loop(acc, fsx, walk, i) ==
    IF i > Len(walk) \/ acc.status = "raised" THEN acc
    ELSE sync_loop(sync_step(acc, fsx, walk[i]), fsx, walk, i + 1)

\* `sync` after its directory check: verify_paths, then the discovery loop
sync(F, fsx, clk, walk) ==
    LET v == verify_paths(F, fsx, clk) IN
    sync_loop([files |-> v.files, clock |-> v.clock, status |-> "ok",
               valid |-> v.valid, invalid |-> v.invalid, new |-> 0, moved |-> 0],
              fsx, walk, 1)

\* every order of the entries S
RECURSIVE Orders(_)
Orders(S) ==
    IF S = {} THEN {<<>>}
    ELSE UNION {{<<x>> \o w : w \in Orders(S \ {x})} : x \in S}

\* directory.glob(pattern) as a sequence: the entries of the directory itself
\* in any order, then (for "**/*") those of its subdirectory
Walks(fsx, root, recursive) ==
    {w \o v : w \in Orders(glob(fsx, root, FALSE)),
              v \in Orders(glob(fsx, root, recursive) \ glob(fsx, root, FALSE))}

\* ------------------------------------------------------------- admission
\* Indexer.extract_text(...).strip(): the length of the text the extraction
\* collaborator yields for these bytes
text_len(b) == 30 * b

\* mutant: the metadata carries no content hash
metadata_of_no_hash(fsx, p, h) ==
    [source |-> p, type |-> lower(suffix(p)), size_bytes |-> st_size(fsx[p].bytes),
     content_hash |-> NoHash]

\* the metadata dict index_file builds
metadata_of(fsx, p, h) ==
    [source |-> p, type |-> lower(suffix(p)), size_bytes |-> st_size(fsx[p].bytes),
     content_hash |-> h]

\* mutant: the text length is not compared with min_text_length
index_file_no_floor(F, fsx, clk, file_path, min_text_length) ==
    LET skip == [files |-> F, clock |-> clk, status |-> "ok", doc |-> None] IN
    IF ~exists(fsx, file_path) THEN skip
    ELSE IF lower(suffix(file_path)) \notin SUPPORTED_EXTENSIONS THEN skip
    ELSE LET content_hash == compute_hash(fsx, file_path)
             existing == get_by_hash(F, content_hash)
         IN IF content_hash = IoError THEN [skip EXCEPT !.status = "raised"]
            ELSE IF existing # None /\ existing.is_valid THEN skip
            ELSE LET F2 == add_file(F, fsx, file_path, content_hash, clk) IN
                 [files |-> F2, clock |-> clk + 1, status |-> "ok",
                  doc |-> [content_hash |-> content_hash,
                           metadata |-> metadata_of(fsx, file_path, content_hash),
                           file_record |-> get_by_hash(F2, content_hash)]]

\* mutant: a file whose content has a valid row is upserted again before the
\* call returns None
index_file_touches(F, fsx, clk, file_path, min_text_length) ==
    LET skip == [files |-> F, clock |-> clk, status |-> "ok", doc |-> None] IN
    IF ~exists(fsx, file_path) THEN skip
    ELSE IF lower(suffix(file_path)) \notin SUPPORTED_EXTENSIONS THEN skip
    ELSE LET content_hash == compute_hash(fsx, file_path)
             existing == get_by_hash(F, content_hash)
         IN IF content_hash = IoError THEN [skip EXCEPT !.status = "raised"]
            ELSE IF existing # None /\ existing.is_valid
            THEN [skip EXCEPT !.files = add_file(F, fsx, file_path, content_hash, clk),
                              !.clock = clk + 1]
            ELSE IF text_len(fsx[file_path].bytes) < min_text_length THEN skip
            ELSE LET F2 == add_file(F, fsx, file_path, content_hash, clk) IN
                 [files |-> F2, clock |-> clk + 1, status |-> "ok",
                  doc |-> [content_hash |-> content_hash,
                           metadata |-> metadata_of(fsx, file_path, content_hash),
                           file_record |-> get_by_hash(F2, content_hash)]]

\* mutant: a file is admitted again although its content has a valid row
index_file_readmits(F, fsx, clk, file_path, min_text_length) ==
    LET skip == [files |-> F, clock |-> clk, status |-> "ok", doc |-> None] IN
    IF ~exists(fsx, file_path) THEN skip
    ELSE IF lower(suffix(file_path)) \notin SUPPORTED_EXTENSIONS THEN skip
    ELSE LET content_hash == compute_hash(fsx, file_path)
         IN IF content_hash = IoError THEN [skip EXCEPT !.status = "raised"]
            ELSE IF text_len(fsx[file_path].bytes) < min_text_length THEN skip
            ELSE LET F2 == add_file(F, fsx, file_path, content_hash, clk) IN
                 [files |-> F2, clock |-> clk + 1, status |-> "ok",
                  doc |-> [content_hash |-> content_hash,
                           metadata |-> metadata_of(fsx, file_path, content_hash),
                           file_record |-> get_by_hash(F2, content_hash)]]

\* Indexer.index_file: [files, clock, status, doc]; doc is None when nothing
\* was admitted, status is "raised" when compute_hash could not read the file.
index_file(F, fsx, clk, file_path, min_text_length) ==
    LET skip == [files |-> F, clock |-> clk, status |-> "ok", doc |-> None] IN
    IF ~exists(fsx, file_path) THEN skip
    ELSE IF lower(suffix(file_path)) \notin SUPPORTED_EXTENSIONS THEN skip
    ELSE LET content_hash == compute_hash(fsx, file_path)
             existing == get_by_hash(F, content_hash)
         IN IF content_hash = IoError THEN [skip EXCEPT !.status = "raised"]
            ELSE IF existing # None /\ existing.is_valid THEN skip
            ELSE IF text_len(fsx[file_path].bytes) < min_text_length THEN skip
            ELSE LET F2 == add_file(F, fsx, file_path, content_hash, clk) IN
                 [files |-> F2, clock |-> clk + 1, status |-> "ok",
                  doc |-> [content_hash |-> content_hash,
                           metadata |-> metadata_of(fsx, file_path, content_hash),
                           file_record |-> get_by_hash(F2, content_hash)]]

\* Indexer.index_directory, the body of its loop for one globbed entry
index_step(acc, fsx, file_path, min_text_length) ==
    IF lower(suffix(file_path)) \notin SUPPORTED_EXTENSIONS THEN acc
    ELSE LET r == index_file(acc.files, fsx, acc.clock, file_path, min_text_length)
         IN IF r.status = "raised" THEN [acc EXCEPT !.status = "raised"]
            ELSE [files |-> r.files, clock |-> r.clock, status |-> "ok",
                  documents |-> IF r.doc = None THEN acc.documents
                                ELSE Append(acc.documents, r.doc)]

\* the loop over the walk order `walk`; an exception of index_file ends it
RECURSIVE index_loop(_, _, _, _, _)
index_loop(acc, fsx, walk, i, min_text_length) ==
    IF i > Len(walk) \/ acc.status = "raised" THEN acc
    ELSE index_loop(index_step(acc, fsx, walk[i], min_text_length),
                    fsx, walk, i + 1, min_text_length)

\* Indexer.index_directory: [files, clock, status, documents]
index_directory(F, fsx, clk, walk, min_text_length) ==
    index_loop([files |-> F, clock |-> clk, status |-> "ok", documents |-> <<>>],
               fsx, walk, 1, min_text_length)

\* Indexer.build_index: the metadata handed to builder.add_text
build_index(documents) == {documents[i].metadata : i \in 1..Len(documents)}

\* ---------------------------------------------------------------- search
\* mutant: the location frozen in the hit's metadata is returned
resolve_frozen(F, result) ==
    LET metadata == result.metadata
    IN [id |-> result.id, score |-> result.score, source |-> metadata.source,
        file_type |-> metadata.type, content_hash |-> metadata.content_hash,
        current_path |-> metadata.source]

\* mutant: a hit without a record is given a location that is not its source
resolve_no_fallback(F, result) ==
    LET metadata == result.metadata
        content_hash == metadata.content_hash
        record == IF content_hash # "" THEN get_by_hash(F, content_hash) ELSE None
    IN [id |-> result.id, score |-> result.score, source |-> metadata.source,
        file_type |-> metadata.type, content_hash |-> content_hash,
        current_path |-> IF record # None THEN record.current_path ELSE PathN]

\* the loop body of Searcher.search / search_with_latency for one engine hit
resolve(F, result) ==
    LET metadata == result.metadata
        content_hash == metadata.content_hash
        record == IF content_hash # "" THEN get_by_hash(F, content_hash) ELSE None
    IN [id |-> result.id, score |-> result.score, source |-> metadata.source,
        file_type |-> metadata.type, content_hash |-> content_hash,
        current_path |-> IF record # None THEN record.current_path ELSE metadata.source]

\* mutant: the results are returned last hit first
search_results_reversed(F, results) ==
    [i \in 1..Len(results) |-> resolve(F, results[Len(results) + 1 - i])]

\* Searcher.search_with_latency without the latency: one SearchResult per hit
search_results(F, results) == [i \in 1..Len(results) |-> resolve(F, results[i])]

\* what the engine may return for a query: up to top_k distinct documents of
\* the index, best first
EngineHits(top_k) ==
    UNION {{[i \in 1..Len(w) |-> [id |-> w[i].source, score |-> Len(w) + 1 - i,
                                  metadata |-> w[i]]] : w \in Orders(S)}
           : S \in {T \in SUBSET index : Cardinality(T) <= top_k}}

\* metadata of a passage of an index that Indexer.build_index did not build:
\* it names a source and has no content_hash, which metadata.get reads as ""
ForeignMetadata == {[source |-> PathX, type |-> ".pdf", content_hash |-> ""]}

\* what the engine may return to Searcher.search for the index at any
\* index_path: up to top_k distinct passages, best first
AnyHits(top_k) ==
    UNION {{[i \in 1..Len(w) |-> [id |-> w[i].source, score |-> Len(w) + 1 - i,
                                  metadata |-> w[i]]] : w \in Orders(S)}
           : S \in {T \in SUBSET (index \cup ForeignMetadata) : Cardinality(T) <= top_k}}

\* ---------------------------------------------------------------- Init
\* The disk at the start: directory /d holds three documents with distinct
\* bytes, one of them in its subdirectory; the store is new and empty.
InitialDisk ==
    [p \in Paths |->
       IF p = PathA THEN [bytes |-> 1, readable |-> TRUE]
       ELSE IF p = PathB THEN [bytes |-> 2, readable |-> TRUE]
       ELSE IF p = PathC THEN [bytes |-> NContents, readable |-> TRUE]
       ELSE NoFile]

\* A store that is new, or one opened again after `leannvault index /d` ran on
\* the initial disk (FileTracker.__init__ keeps the rows of an existing table).
Init ==
    /\ fs = InitialDisk
    /\ fsops = 0
    /\ nops = 0
    /\ last = [op |-> "init"]
    /\ workers = [w \in Workers |-> Idle]
    /\ page_state = 1
    /\ filter_input = Blank
    /\ \/ /\ files = {}
          /\ clock = 1
          /\ index = {}
          /\ ready = FALSE
       \/ \E walk \in Walks(InitialDisk, "/d", TRUE) :
            LET r == index_directory({}, InitialDisk, 1, walk, 20) IN
            /\ files = r.files
            /\ clock = r.clock
            /\ index = build_index(r.documents)
            /\ ready = TRUE

\* add_file of the file at p of the initial disk when the clock reads t
admit_at(F, p, t) ==
    add_file(F, InitialDisk, p, sha256(InitialDisk[p].bytes), t)

\* The stores the listing queries run on: the three documents of /d admitted
\* one after the other, the clock (read once per add_file) not always having
\* advanced in between, and any of them invalidated later.
QueryStores ==
    {LET F0 == admit_at(admit_at(admit_at({}, PathA, t[1]), PathB, t[2]), PathC, t[3])
         F1 == IF sha256(1) \in gone THEN mark_invalid(F0, sha256(1)) ELSE F0
         F2 == IF sha256(2) \in gone THEN mark_invalid(F1, sha256(2)) ELSE F1
     IN IF sha256(NContents) \in gone THEN mark_invalid(F2, sha256(NContents)) ELSE F2
     : t \in {u \in [1..3 -> 1..MaxTicks] : u[1] <= u[2] /\ u[2] <= u[3]},
       gone \in SUBSET {sha256(1), sha256(2), sha256(NContents)}}

QueryInit ==
    /\ fs = InitialDisk
    /\ fsops = 0
    /\ nops = 0
    /\ last = [op |-> "init"]
    /\ workers = [w \in Workers |-> Idle]
    /\ page_state = 1
    /\ filter_input = Blank
    /\ files \in QueryStores
    /\ clock = MaxTicks + 1
    /\ index = {}
    /\ ready = FALSE

\* ------------------------------------------------- file-system changes
\* a file is created or overwritten
WriteFile(p, b) ==
    /\ fsops < MaxFsOps
    /\ fs[p] # [bytes |-> b, readable |-> TRUE]
    /\ fs' = [fs EXCEPT ![p] = [bytes |-> b, readable |-> TRUE]]
    /\ fsops' = fsops + 1
    /\ last' = [op |-> "write", path |-> p]
    /\ UNCHANGED <<page_state, filter_input, workers, files, clock, index, ready, nops>>

\* a file is removed
RemoveFile(p) ==
    /\ fsops < MaxFsOps
    /\ exists(fs, p)
    /\ fs' = [fs EXCEPT ![p] = NoFile]
    /\ fsops' = fsops + 1
    /\ last' = [op |-> "remove", path |-> p]
    /\ UNCHANGED <<page_state, filter_input, workers, files, clock, index, ready, nops>>

\* a file is moved or renamed, bytes unchanged
MoveFile(p, q) ==
    /\ fsops < MaxFsOps
    /\ exists(fs, p)
    /\ p # q
    /\ fs' = [fs EXCEPT ![p] = NoFile, ![q] = fs[p]]
    /\ fsops' = fsops + 1
    /\ last' = [op |-> "move", from |-> p, to |-> q]
    /\ UNCHANGED <<page_state, filter_input, workers, files, clock, index, ready, nops>>

\* a file loses its read permission
LockFile(p) ==
    /\ fsops < MaxFsOps
    /\ exists(fs, p)
    /\ fs[p].readable
    /\ fs' = [fs EXCEPT ![p].readable = FALSE]
    /\ fsops' = fsops + 1
    /\ last' = [op |-> "lock"]
    /\ UNCHANGED <<page_state, filter_input, workers, files, clock, index, ready, nops>>

\* ------------------------------------------------------------ operations
\* one more operation of the program is called
Called == nops' = nops + 1

\* history: the change of the disk or the `index`, `sync` or add_file call an
\* operation directly follows, if any
Preceding ==
    IF last.op \in {"move", "remove", "write", "index", "sync", "add_file"} THEN last
    ELSE [op |-> "other"]

\* history: the content hashes whose rows are invalid in F and valid in G
Revalidated(F, G) ==
    {r.content_hash : r \in {x \in F : ~x.is_valid /\ \E y \in G :
                                  y.content_hash = x.content_hash /\ y.is_valid}}

\* `leannvault sync DIRECTORY` / POST /sync
Sync(root, recursive) ==
    /\ nops < MaxOps
    /\ IF ~dir_exists(root)
           THEN /\ last' = [op |-> "sync", root |-> root, recursive |-> recursive,
                            status |-> "no_directory"]
                /\ UNCHANGED <<page_state, filter_input, workers, fs, files, clock, index, ready, fsops>>
                /\ Called
           ELSE \E walk \in Walks(fs, root, recursive) :
                  \E r \in {sync(files, fs, clock, walk)} :
                  /\ files' = r.files
                  /\ clock' = r.clock
                  /\ last' = [op |-> "sync", root |-> root, recursive |-> recursive,
                              walk |-> walk, status |-> r.status, valid |-> r.valid, invalid |-> r.invalid,
                              new |-> r.new, moved |-> r.moved, after |-> Preceding,
                              revalidated |-> Revalidated(files, r.files)]
                  /\ UNCHANGED <<page_state, filter_input, workers, fs, index, ready, fsops>>
                  /\ Called

\* Indexer.index_file called on one path (admit)
IndexFile(p, min_text_length) ==
    /\ nops < MaxOps
    /\ \E r \in {index_file(files, fs, clock, p, min_text_length)} :
           /\ files' = r.files
           /\ clock' = r.clock
           /\ last' = [op |-> "index_file", path |-> p,
                       min_text_length |-> min_text_length,
                       status |-> r.status, doc |-> r.doc]
           /\ UNCHANGED <<page_state, filter_input, workers, fs, index, ready, fsops>>
           /\ Called

\* `leannvault index DIRECTORY`: index_directory, then build_index when
\* documents were admitted
Index(directory, recursive, min_text_length) ==
    /\ nops < MaxOps
    /\ IF ~dir_exists(directory)
           THEN /\ last' = [op |-> "index", directory |-> directory, status |-> "no_directory"]
                /\ UNCHANGED <<page_state, filter_input, workers, fs, files, clock, index, ready, fsops>>
                /\ Called
           ELSE \E walk \in Walks(fs, directory, recursive) :
                  \E r \in {index_directory(files, fs, clock, walk, min_text_length)} :
                  LET built == r.status = "ok" /\ r.documents # <<>>
                  IN /\ files' = r.files
                     /\ clock' = r.clock
                     /\ index' = IF built THEN build_index(r.documents) ELSE index
                     /\ ready' = (built \/ ready)
                     /\ last' = [op |-> "index", directory |-> directory,
                                 recursive |-> recursive,
                                 walk |-> walk, status |-> r.status,
                                 ndocs |-> Len(r.documents),
                                 admitted |-> {r.documents[i].content_hash :
                                                 i \in 1..Len(r.documents)}]
                     /\ UNCHANGED <<page_state, filter_input, workers, fs, fsops>>
                     /\ Called

\* `leannvault search QUERY` / POST /search
Search ==
    /\ nops < MaxOps
    /\ IF ~ready
           THEN /\ last' = [op |-> "search", status |-> "not_ready"]
                /\ UNCHANGED <<page_state, filter_input, workers, fs, files, clock, index, ready, fsops>>
                /\ Called
           ELSE \E results \in EngineHits(MaxTopK) :
                  /\ last' = [op |-> "search", status |-> "ok", hits |-> results,
                              results |-> search_results(files, results)]
                  /\ UNCHANGED <<page_state, filter_input, workers, fs, files, clock, index, ready, fsops>>
                  /\ Called

\* Searcher.search called as a library function on what the engine returns
SearcherSearch ==
    /\ nops < MaxOps
    /\ \E results \in AnyHits(MaxTopK) :
           /\ last' = [op |-> "searcher_search", hits |-> results,
                       results |-> search_results(files, results)]
           /\ UNCHANGED <<page_state, filter_input, workers, fs, files, clock, index, ready, fsops>>
           /\ Called

\* mutant: the descriptor is not looked for
is_ready_unchecked == TRUE

\* Searcher.is_ready: the index's .meta.json descriptor exists
is_ready == ready

\* `leannvault search QUERY`.  Without the descriptor LeannSearcher cannot load
\* the index and the call raises.
CliSearch ==
    /\ nops < MaxOps
    /\ IF ~is_ready
           THEN last' = [op |-> "cli_search", status |-> "not_ready", engine |-> FALSE]
           ELSE IF ~ready
           THEN last' = [op |-> "cli_search", status |-> "raised", engine |-> TRUE]
           ELSE \E results \in EngineHits(MaxTopK) :
                  last' = [op |-> "cli_search", status |-> "ok", engine |-> TRUE,
                           hits |-> results,
                           results |-> search_results(files, results)]
    /\ UNCHANGED <<page_state, filter_input, workers, fs, files, clock, index, ready, fsops>>
    /\ Called

\* do_search of the interactive UI: a blank query is turned away first, and
\* whatever the engine raises is reported as an error message
DoSearch(blank) ==
    /\ nops < MaxOps
    /\ IF blank
           THEN last' = [op |-> "do_search", status |-> "no_query", engine |-> FALSE]
           ELSE IF ~is_ready
           THEN last' = [op |-> "do_search", status |-> "not_ready", engine |-> FALSE]
           ELSE IF ~ready
           THEN last' = [op |-> "do_search", status |-> "error", engine |-> TRUE]
           ELSE \E results \in EngineHits(MaxTopK) :
                  last' = [op |-> "do_search", status |-> "ok", engine |-> TRUE,
                           hits |-> results,
                           results |-> search_results(files, results)]
    /\ UNCHANGED <<page_state, filter_input, workers, fs, files, clock, index, ready, fsops>>
    /\ Called

\* `leannvault delete --hash` / POST /delete with content_hash
Delete(h) ==
    /\ nops < MaxOps
    /\ files' = delete(files, h)
    /\ last' = [op |-> "delete", hash |-> h, deleted |-> (rows_by_hash(files, h) # {})]
    /\ UNCHANGED <<page_state, filter_input, workers, fs, clock, index, ready, fsops>>
    /\ Called

\* `leannvault delete --path` / POST /delete with file_path
DeleteByPath(p) ==
    /\ nops < MaxOps
    /\ \E record \in get_by_path(files, p) :
           /\ files' = IF record # None THEN delete(files, record.content_hash) ELSE files
           /\ last' = [op |-> "delete_path", path |-> p, deleted |-> (record # None),
                       record |-> record]
           /\ UNCHANGED <<page_state, filter_input, workers, fs, clock, index, ready, fsops>>
           /\ Called

\* mutant: add_file does not look whether the file exists
AddFile_unchecked(p, h) ==
    /\ nops < MaxOps
    /\ LET content_hash == IF h = NoHash THEN compute_hash(fs, p) ELSE h IN
           IF content_hash = IoError
           THEN /\ last' = [op |-> "add_file", path |-> p, hash |-> h,
                            status |-> "raised"]
                /\ UNCHANGED <<page_state, filter_input, workers, fs, files, clock, index, ready, fsops>>
                /\ Called
           ELSE /\ files' = add_file(files, fs, p, content_hash, clock)
                /\ clock' = clock + 1
                /\ last' = [op |-> "add_file", path |-> p, hash |-> h, status |-> "ok",
                            record |-> get_by_hash(files', content_hash),
                            after |-> Preceding]
                /\ UNCHANGED <<page_state, filter_input, workers, fs, index, ready, fsops>>
                /\ Called

\* FileTracker.add_file called directly (upsert); content_hash=None computes it
AddFile(p, h) ==
    /\ nops < MaxOps
    /\ LET content_hash == IF h = NoHash THEN compute_hash(fs, p) ELSE h IN
           IF ~exists(fs, p) \/ content_hash = IoError
           THEN /\ last' = [op |-> "add_file", path |-> p, hash |-> h,
                            status |-> IF ~exists(fs, p) THEN "not_found" ELSE "raised"]
                /\ UNCHANGED <<page_state, filter_input, workers, fs, files, clock, index, ready, fsops>>
                /\ Called
           ELSE /\ files' = add_file(files, fs, p, content_hash, clock)
                /\ clock' = clock + 1
                /\ last' = [op |-> "add_file", path |-> p, hash |-> h, status |-> "ok",
                            record |-> get_by_hash(files', content_hash),
                            after |-> Preceding]
                /\ UNCHANGED <<page_state, filter_input, workers, fs, index, ready, fsops>>
                /\ Called

\* FileTracker.update_path called directly (set_location)
UpdatePath(h, p) ==
    /\ nops < MaxOps
    /\ files' = update_path(files, h, p, clock)
    /\ clock' = clock + 1
    /\ last' = [op |-> "update_path", hash |-> h, path |-> p,
                updated |-> (rows_by_hash(files, h) # {})]
    /\ UNCHANGED <<page_state, filter_input, workers, fs, index, ready, fsops>>
    /\ Called

\* FileTracker.mark_invalid called directly (invalidate)
MarkInvalid(h) ==
    /\ nops < MaxOps
    /\ files' = mark_invalid(files, h)
    /\ last' = [op |-> "mark_invalid", hash |-> h,
                updated |-> (rows_by_hash(files, h) # {})]
    /\ UNCHANGED <<page_state, filter_input, workers, fs, clock, index, ready, fsops>>
    /\ Called

\* ------------------------------------------------------ concurrent callers
\* FileTracker.add_file by caller w, up to its SQL statement: the existence
\* check, the hash when none is passed, and now = datetime.now()
AddFileBegin(w, p, h) ==
    /\ workers[w] = Idle
    /\ LET content_hash == IF h = NoHash THEN compute_hash(fs, p) ELSE h IN
           IF ~exists(fs, p) \/ content_hash = IoError
           THEN /\ workers' = [workers EXCEPT ![w] =
                      [pc |-> "done", op |-> "add_file", path |-> p,
                       status |-> IF ~exists(fs, p) THEN "not_found" ELSE "raised"]]
                /\ UNCHANGED clock
           ELSE /\ workers' = [workers EXCEPT ![w] =
                      [pc |-> "add_file_write", op |-> "add_file", path |-> p,
                       hash |-> content_hash, now |-> clock]]
                /\ clock' = clock + 1
    /\ UNCHANGED <<page_state, filter_input, fs, files, index, ready, fsops, nops, last>>

\* the INSERT ... ON CONFLICT statement of caller w, committed
AddFileWrite(w) ==
    /\ workers[w].pc = "add_file_write"
    /\ files' = add_file(files, fs, workers[w].path, workers[w].hash, workers[w].now)
    /\ last' = [op |-> "add_file_write", worker |-> w, hash |-> workers[w].hash,
                path |-> workers[w].path, now |-> workers[w].now]
    /\ workers' = [workers EXCEPT ![w].pc = "add_file_read"]
    /\ UNCHANGED <<page_state, filter_input, fs, clock, index, ready, fsops, nops>>

\* return self.get_by_hash(content_hash): a second connection
AddFileReturn(w) ==
    /\ workers[w].pc = "add_file_read"
    /\ workers' = [workers EXCEPT ![w] =
           [pc |-> "done", op |-> "add_file", path |-> workers[w].path,
            hash |-> workers[w].hash, now |-> workers[w].now, status |-> "ok",
            record |-> get_by_hash(files, workers[w].hash)]]
    /\ UNCHANGED <<page_state, filter_input, fs, files, clock, index, ready, fsops, nops, last>>

\* `sync` by caller w up to the snapshot verify_paths iterates over:
\* list_all(valid_only=False), one read transaction
SyncBegin(w, root, recursive) ==
    /\ workers[w] = Idle
    /\ dir_exists(root)
    /\ \E walk \in Walks(fs, root, recursive) :
          workers' = [workers EXCEPT ![w] =
              [pc |-> "verify", op |-> "sync", root |-> root, recursive |-> recursive,
               walk |-> walk, recs |-> list_all(files, FALSE), i |-> 1,
               status |-> "ok"]]
    /\ UNCHANGED <<page_state, filter_input, fs, files, clock, index, ready, fsops, nops, last>>

\* one turn of the loop of verify_paths of caller w: update_path or
\* mark_invalid for the next record of its snapshot
SyncVerify(w) ==
    /\ workers[w].pc = "verify"
    /\ IF workers[w].i > Len(workers[w].recs)
           THEN /\ workers' = [workers EXCEPT ![w].pc = "discover", ![w].i = 1]
                /\ UNCHANGED <<files, clock>>
           ELSE \E r \in {verify_step([files |-> files, clock |-> clock,
                                       valid |-> 0, invalid |-> 0],
                                      fs, workers[w].recs[workers[w].i])} :
                  /\ files' = r.files
                  /\ clock' = r.clock
                  /\ workers' = [workers EXCEPT ![w].i = @ + 1]
    /\ UNCHANGED <<page_state, filter_input, fs, index, ready, fsops, nops, last>>

\* one turn of the discovery loop of caller w: compute_hash, get_by_hash and
\* update_path for the next file of its walk, taken as one step
SyncDiscover(w) ==
    /\ workers[w].pc = "discover"
    /\ IF workers[w].i > Len(workers[w].walk)
           THEN /\ workers' = [workers EXCEPT ![w].pc = "done"]
                /\ UNCHANGED <<files, clock>>
           ELSE \E r \in {sync_step([files |-> files, clock |-> clock, status |-> "ok",
                                     valid |-> 0, invalid |-> 0, new |-> 0, moved |-> 0],
                                    fs, workers[w].walk[workers[w].i])} :
                  /\ files' = r.files
                  /\ clock' = r.clock
                  /\ workers' = IF r.status = "raised"
                                 THEN [workers EXCEPT ![w].pc = "done",
                                                      ![w].status = "raised"]
                                 ELSE [workers EXCEPT ![w].i = @ + 1]
    /\ UNCHANGED <<page_state, filter_input, fs, index, ready, fsops, nops, last>>

\* Indexer.index_file by caller w, up to its call of add_file: the existence
\* and suffix checks, compute_hash, the get_by_hash read, the extraction and the
\* length floor
IndexFileCheck(w, p, min_text_length) ==
    /\ workers[w] = Idle
    /\ LET absent == [pc |-> "done", op |-> "index_file", path |-> p,
                      status |-> "ok", doc |-> None]
           content_hash == compute_hash(fs, p)
           existing == get_by_hash(files, content_hash)
       IN workers' = [workers EXCEPT ![w] =
              IF ~exists(fs, p) THEN absent
              ELSE IF lower(suffix(p)) \notin SUPPORTED_EXTENSIONS THEN absent
              ELSE IF content_hash = IoError THEN [absent EXCEPT !.status = "raised"]
              ELSE IF existing # None /\ existing.is_valid THEN absent
              ELSE IF text_len(fs[p].bytes) < min_text_length THEN absent
              ELSE [pc |-> "index_file_admit", op |-> "index_file", path |-> p,
                    hash |-> content_hash]]
    /\ UNCHANGED <<page_state, filter_input, fs, files, clock, index, ready, fsops, nops, last>>

\* the rest of index_file of caller w: tracker.add_file with the hash computed
\* before, then the metadata and the returned IndexedDocument
IndexFileAdmit(w) ==
    /\ workers[w].pc = "index_file_admit"
    /\ \E F2 \in {add_file(files, fs, workers[w].path, workers[w].hash, clock)} :
          /\ files' = F2
          /\ workers' = [workers EXCEPT ![w] =
                 [pc |-> "done", op |-> "index_file", path |-> workers[w].path,
                  status |-> "ok",
                  doc |-> [content_hash |-> workers[w].hash,
                           metadata |-> metadata_of(fs, workers[w].path, workers[w].hash),
                           file_record |-> get_by_hash(F2, workers[w].hash)]]]
    /\ clock' = clock + 1
    /\ UNCHANGED <<page_state, filter_input, fs, index, ready, fsops, nops, last>>

\* the offset a listing starts at
start_of(offset) == IF offset = NoArg THEN 0 ELSE offset

\* FileTracker.list_all / get_all_files called with limit and offset.
\* History: `pages` is the concatenation of the pages listed so far when the
\* calls went through offsets 0, limit, 2*limit, ... with the same arguments
\* (`from0`), and this call's page otherwise.
ListAll(valid_only, limit, offset) ==
    LET records == list_all_page(files, valid_only, limit, offset)
        continuing == /\ last.op = "list_all"
                      /\ last.from0
                      /\ last.valid_only = valid_only
                      /\ last.limit = limit
                      /\ limit # NoArg
                      /\ offset = start_of(last.offset) + limit
    IN /\ last' = [op |-> "list_all", valid_only |-> valid_only, limit |-> limit,
                   offset |-> offset, records |-> records,
                   from0 |-> (continuing \/ start_of(offset) = 0 \/ limit = NoArg),
                   pages |-> IF continuing THEN last.pages \o records ELSE records]
       /\ UNCHANGED <<page_state, filter_input, workers, fs, files, clock, index, ready, fsops, nops>>

\* the search terms typed into the vault page
NameQueries ==
    {<<"a">>, <<"A">>, <<"_">>, <<"%">>, <<".", "p", "d", "f">>, <<"a", ".", "p">>,
     <<"d", "_", "a">>, <<"s", "/">>, <<"x">>, <<"z">>}

\* FileTracker.search_files called by get_vault_page with a search term
SearchFiles(name_query, limit) ==
    /\ last' = [op |-> "search_files", name_query |-> name_query, limit |-> limit,
                records |-> search_files(files, name_query, limit)]
    /\ UNCHANGED <<page_state, filter_input, workers, fs, files, clock, index, ready, fsops, nops>>

\* -------------------------------------------------------- the vault page
\* PAGE_SIZE of web/ui.py, which is 50 there: scaled to stores of at most
\* NContents rows, so that a listing has more than one page
PAGE_SIZE == 2

\* the Next clicks modelled go up to this page
MaxPage == 3

\* get_vault_page(search_term, page): the records shown, total_count,
\* total_pages of the info line and the page number handed to page_state
get_vault_page(F, search_term, page) ==
    LET target_page == page
        offset == (target_page - 1) * PAGE_SIZE
    IN IF search_term # Blank
       THEN LET records == search_files(F, search_term, PAGE_SIZE) IN
            [records |-> records, total_count |-> Len(records), total_pages |-> 1,
             page |-> target_page]
       ELSE LET total_count == count(F, FALSE)
                pages == (total_count + PAGE_SIZE - 1) \div PAGE_SIZE
            IN [records |-> list_all_page(F, FALSE, PAGE_SIZE, offset),
                total_count |-> total_count,
                total_pages |-> IF pages > 1 THEN pages ELSE 1,
                page |-> target_page]

\* what a binding of the vault page leaves behind: the table and info line
\* shown and the new page_state
Shown(op, r) ==
    /\ page_state' = r.page
    /\ last' = [op |-> op, records |-> r.records, total_count |-> r.total_count,
                total_pages |-> r.total_pages]

\* filter_input.change: get_vault_page(filter, 1)
FilterChange(search_term) ==
    /\ search_term # filter_input
    /\ filter_input' = search_term
    /\ Shown("filter_change", get_vault_page(files, search_term, 1))
    /\ UNCHANGED <<workers, fs, files, clock, index, ready, fsops, nops>>

\* prev_btn.click: get_vault_page(f, max(1, p-1))
PrevClick ==
    /\ Shown("prev", get_vault_page(files, filter_input,
                                    IF page_state - 1 > 1 THEN page_state - 1 ELSE 1))
    /\ UNCHANGED <<filter_input, workers, fs, files, clock, index, ready, fsops, nops>>

\* next_btn.click: get_vault_page(f, p+1)
NextClick ==
    /\ page_state < MaxPage
    /\ Shown("next", get_vault_page(files, filter_input, page_state + 1))
    /\ UNCHANGED <<filter_input, workers, fs, files, clock, index, ready, fsops, nops>>

\* delete_btn.click: tracker.delete(h), then get_vault_page("", 1); the
\* filter box is not among the outputs
DeleteClick(h) ==
    /\ files' = delete(files, h)
    /\ Shown("delete", get_vault_page(delete(files, h), Blank, 1))
    /\ UNCHANGED <<filter_input, workers, fs, clock, index, ready, fsops, nops>>

\* sync_btn.click: get_vault_page("", 1)
SyncClick ==
    /\ Shown("sync", get_vault_page(files, Blank, 1))
    /\ UNCHANGED <<filter_input, workers, fs, files, clock, index, ready, fsops, nops>>

\* the file system changes under the program
FsNext ==
    \/ \E p \in Paths, b \in Contents : WriteFile(p, b)
    \/ \E p \in Paths : RemoveFile(p)
    \/ \E p, q \in Paths : MoveFile(p, q)
    \/ \E p \in Paths : LockFile(p)

\* admission and reconciliation over a changing disk
Next ==
    \/ FsNext
    \/ \E root \in ScanRoots, recursive \in BOOLEAN : Sync(root, recursive)
    \/ \E p \in Paths, m \in MinLengths : IndexFile(p, m)
    \/ \E d \in ScanRoots, recursive \in BOOLEAN, m \in MinLengths : Index(d, recursive, m)

\* the same, with queries
SearchNext ==
    \/ Next
    \/ Search

\* the record store's operations called directly, deletion, admission and
\* reconciliation, with at most MaxStoreFsOps changes of the disk
StoreNext ==
    \/ fsops < MaxStoreFsOps /\ FsNext
    \/ \E p \in Paths, h \in Hashes \cup {NoHash} : AddFile(p, h)
    \/ \E h \in Hashes, p \in Paths : UpdatePath(h, p)
    \/ \E h \in Hashes : MarkInvalid(h)
    \/ \E h \in Hashes : Delete(h)
    \/ \E p \in Paths : DeleteByPath(p)
    \/ \E root \in ScanRoots, recursive \in BOOLEAN : Sync(root, recursive)
    \/ \E p \in Paths, m \in MinLengths : IndexFile(p, m)
    \/ \E d \in ScanRoots, recursive \in BOOLEAN, m \in MinLengths : Index(d, recursive, m)

\* queries through Searcher.search over a store whose rows are moved and
\* deleted after the index was built
ResolveNext ==
    \/ \E h \in Hashes, p \in Paths : UpdatePath(h, p)
    \/ \E h \in Hashes : Delete(h)
    \/ \E p \in Paths : DeleteByPath(p)
    \/ SearcherSearch

\* the listing queries of the vault page over a store that does not change
QueryNext ==
    \/ \E valid_only \in BOOLEAN, limit \in {NoArg} \cup 1..MaxLimit,
          offset \in {NoArg} \cup 0..MaxOffset : ListAll(valid_only, limit, offset)
    \/ \E name_query \in NameQueries, limit \in 1..MaxLimit :
          SearchFiles(name_query, limit)

\* concurrent callers of the record store: two callers inside add_file, and
\* update_path, mark_invalid and delete of other callers, each one transaction
ConcStoreNext ==
    \/ \E w \in Workers, p \in Paths, h \in Hashes \cup {NoHash} : AddFileBegin(w, p, h)
    \/ \E w \in Workers : AddFileWrite(w)
    \/ \E w \in Workers : AddFileReturn(w)
    \/ nops < MaxConcOps /\ \E h \in Hashes, p \in Paths : UpdatePath(h, p)
    \/ nops < MaxConcOps /\ \E h \in Hashes : MarkInvalid(h)
    \/ nops < MaxConcOps /\ \E h \in Hashes : Delete(h)

\* the query front ends (HTTP, command line, interactive UI) and index runs
FrontEndNext ==
    \/ Search
    \/ CliSearch
    \/ \E blank \in BOOLEAN : DoSearch(blank)
    \/ \E d \in ScanRoots, recursive \in BOOLEAN, m \in MinLengths : Index(d, recursive, m)

\* two callers run `sync` at once; the disk changes only before they start
ConcSyncNext ==
    \/ /\ fsops < MaxStoreFsOps
       /\ \A w \in Workers : workers[w] = Idle
       /\ FsNext
    \/ \E w \in Workers, root \in ScanRoots, recursive \in BOOLEAN :
          SyncBegin(w, root, recursive)
    \/ \E w \in Workers : SyncVerify(w)
    \/ \E w \in Workers : SyncDiscover(w)

\* two callers run index_file at once; the disk changes only before they start
ConcAdmitNext ==
    \/ /\ fsops < MaxStoreFsOps
       /\ \A w \in Workers : workers[w] = Idle
       /\ FsNext
    \/ \E w \in Workers, p \in Paths, m \in MinLengths : IndexFileCheck(w, p, m)
    \/ \E w \in Workers : IndexFileAdmit(w)

\* the bindings of the vault page
UiNext ==
    \/ \E search_term \in NameQueries \cup {Blank} : FilterChange(search_term)
    \/ PrevClick
    \/ NextClick
    \/ \E h \in Hashes : DeleteClick(h)
    \/ SyncClick

\* ===================================================================== claims
\* the supported-kind files other than q that a walk of root yields and that
\* hold the bytes b
Duplicates(fsx, root, recursive, q, b) ==
    {p \in glob(fsx, root, recursive) \ {q} :
        lower(suffix(p)) \in SUPPORTED_EXTENSIONS /\ fsx[p].bytes = b}

\* a tracked file was just moved from P to Q: a row has current_path P and the
\* content hash of the bytes now at Q
JustMoved(P, Q) ==
    /\ last.op = "move" /\ last.from = P /\ last.to = Q
    /\ \E r \in files : r.current_path = P /\ r.content_hash = sha256(fs[Q].bytes)

\* this step is a `sync` of root that ran to its end
SyncCompletes(root) ==
    last'.op = "sync" /\ last'.root = root /\ last'.status = "ok"

\* after the step: get_by_path(Q) is the row of h, get_by_path(P) is None and
\* the row of h has current_path Q
MoveRecorded(P, Q, h) ==
    /\ \A r \in get_by_path(files', Q) : r # None /\ r.content_hash = h
    /\ get_by_path(files', P) = {None}
    /\ \A r \in files' : r.content_hash = h => r.current_path = Q

\* C1 as stated: a tracked file moved from P to Q and then a completed sync of
\* the parent of Q leave get_by_path(Q) with the same content hash,
\* get_by_path(P) None and current_path = Q.
C1_MoveDetectedAsStated ==
    [][\A P, Q \in Paths :
         JustMoved(P, Q) /\ SyncCompletes(parent(Q))
         => MoveRecorded(P, Q, sha256(fs[Q].bytes))]_vars

\* C1 amended: the same, when Q has a supported suffix, no other
\* supported-kind file that the walk yields holds the same bytes, and no row
\* of another content hash has current_path P or Q.
C1_MoveDetected ==
    [][\A P, Q \in Paths :
         /\ JustMoved(P, Q)
         /\ SyncCompletes(parent(Q))
         /\ lower(suffix(Q)) \in SUPPORTED_EXTENSIONS
         /\ Duplicates(fs, parent(Q), last'.recursive, Q, fs[Q].bytes) = {}
         /\ \A r \in files : r.current_path \in {P, Q}
                             => r.content_hash = sha256(fs[Q].bytes)
         => MoveRecorded(P, Q, sha256(fs[Q].bytes))]_vars

\* C1 witness: a sync of the parent of Q right after the move P -> Q counted
\* one move and the row admitted at P is now found at Q and not at P.
C1_Witness ==
    /\ last.op = "sync" /\ last.status = "ok" /\ last.moved = 1
    /\ last.after.op = "move"
    /\ last.root = parent(last.after.to)
    /\ get_by_path(files, last.after.from) = {None}
    /\ Cardinality(rows_by_path(files, last.after.to)) = 1
    /\ \E r \in files : /\ r.current_path = last.after.to
                        /\ r.original_path = last.after.from
                        /\ r.content_hash = sha256(fs[last.after.to].bytes)
                        /\ r.is_valid


\* C2: every result of a query whose hit carries a content hash that has a
\* row in the store gives that row's current_path as stored at query time.
C2_ResolverFresh ==
    (last.op = "search" /\ last.status = "ok")
    => \A i \in 1..Len(last.hits) :
         \A r \in files :
            r.content_hash = last.hits[i].metadata.content_hash
            => last.results[i].current_path = r.current_path

\* C2 witness: a query returned a document that was moved after the index was
\* built; the result gives the path where its bytes now are, not the source
\* frozen in the index.
C2_Witness ==
    /\ last.op = "search" /\ last.status = "ok"
    /\ \E i \in 1..Len(last.results) :
         LET res == last.results[i] IN
         /\ res.current_path # res.source
         /\ ~exists(fs, res.source)
         /\ exists(fs, res.current_path)
         /\ sha256(fs[res.current_path].bytes) = res.content_hash
         /\ \E r \in files : r.content_hash = res.content_hash /\ r.is_valid

\* C3: the store never holds two rows with the same content hash, whatever
\* upserts, admits, path updates, invalidations, deletes and syncs ran.
C3_OneRecordPerIdentity ==
    \A h \in Hashes : Cardinality(rows_by_hash(files, h)) <= 1

\* C3 witness: add_file was called for a content hash that already had a row;
\* the row it returns is the old one (indexed_at kept) seen again now.
C3_Witness ==
    /\ last.op = "add_file" /\ last.status = "ok"
    /\ last.record.indexed_at < last.record.last_seen_at
    /\ last.record.current_path = last.path
    /\ rows_by_hash(files, last.record.content_hash) = {last.record}

\* this step is a `sync` that got past its directory check
SyncRuns == last'.op = "sync" /\ last'.status # "no_directory"

\* the supported-kind files a walk of root yields whose content hash is h
Found(fsx, root, recursive, h) ==
    {p \in glob(fsx, root, recursive) :
        lower(suffix(p)) \in SUPPORTED_EXTENSIONS /\ compute_hash(fsx, p) = h}

\* C4 as stated: a sync that completes right after the file at a row's
\* current_path was removed leaves the row with is_valid false.
C4_InvalidatedAsStated ==
    [][\A r \in files :
         /\ last.op = "remove" /\ last.path = r.current_path
         /\ last'.op = "sync" /\ last'.status = "ok"
         => \A r2 \in rows_by_hash(files', r.content_hash) : ~r2.is_valid]_vars

\* C4 amended: a sync leaves a row whose current_path has no file invalid at
\* that path, unless its walk finds a supported file with the row's content
\* hash: then a completed sync leaves the row valid at such a file.  A row
\* whose current_path has a file is left valid with a later last_seen_at.
C4_InvalidatedOrRelocated ==
    [][SyncRuns =>
       \A r \in files :
         LET found == Found(fs, last'.root, last'.recursive, r.content_hash) IN
         /\ rows_by_hash(files', r.content_hash) # {}
         /\ \A r2 \in rows_by_hash(files', r.content_hash) :
              /\ ~exists(fs, r.current_path) /\ found = {}
                 => ~r2.is_valid /\ r2.current_path = r.current_path
              /\ ~exists(fs, r.current_path) /\ found # {} /\ last'.status = "ok"
                 => r2.is_valid /\ r2.current_path \in found
              /\ exists(fs, r.current_path)
                 => r2.is_valid /\ r2.last_seen_at > r.last_seen_at]_vars

\* C4 witness: a sync right after a file was written back at the current_path
\* of a row that an earlier sync had left invalid; the row is valid again, at
\* the same path.
C4_Witness ==
    /\ last.op = "sync" /\ last.status = "ok" /\ last.moved = 0
    /\ last.after.op = "write"
    /\ \E r \in files : /\ r.content_hash \in last.revalidated
                        /\ r.is_valid
                        /\ r.current_path = last.after.path
                        /\ r.indexed_at < r.last_seen_at

\* C5: a step that is not a delete keeps a row for every content hash that
\* had one, invalid rows included.
C5_OnlyDeleteRemoves ==
    [][last'.op \notin {"delete", "delete_path"}
       => \A r \in files : rows_by_hash(files', r.content_hash) # {}]_vars

\* C5 witness: a sync found a row's file missing; the row is still in the
\* store, with is_valid false.
C5_Witness ==
    /\ last.op = "sync" /\ last.status = "ok" /\ last.invalid >= 1
    /\ \E r \in files : ~r.is_valid /\ ~exists(fs, r.current_path)

\* C6: after an admit or a sync, every row the operation wrote or confirmed
\* (changed and left valid) has at its current_path a file whose bytes hash to
\* the row's content hash.
C6_ConfirmedSighting ==
    [][last'.op \in {"sync", "index_file", "index"}
       => \A r \in files' \ files :
            r.is_valid => /\ exists(fs, r.current_path)
                          /\ sha256(fs[r.current_path].bytes) = r.content_hash]_vars

\* C7: no two valid rows have the same current_path.
C7_UniqueValidLocation ==
    \A r1, r2 \in files :
       r1.is_valid /\ r2.is_valid /\ r1.current_path = r2.current_path => r1 = r2

\* the positions of a walk that hold a supported-kind file with the bytes b
DupIdx(walk, fsx, b) ==
    {i \in 1..Len(walk) : /\ lower(suffix(walk[i])) \in SUPPORTED_EXTENSIONS
                          /\ fsx[walk[i]].bytes = b}
FirstProcessed(walk, fsx, b) ==
    walk[CHOOSE i \in DupIdx(walk, fsx, b) : \A j \in DupIdx(walk, fsx, b) : i <= j]
LastProcessed(walk, fsx, b) ==
    walk[CHOOSE i \in DupIdx(walk, fsx, b) : \A j \in DupIdx(walk, fsx, b) : j <= i]

\* this step passes a file with the bytes b to `op` while a row of that
\* content has its current_path at another file with the same bytes
ProcessesSecondCopy(op, b) ==
    /\ last'.op = op /\ last'.status = "ok"
    /\ op = "add_file" => last'.hash = NoHash
    /\ lower(suffix(last'.path)) \in SUPPORTED_EXTENSIONS
    /\ fs[last'.path].bytes = b
    /\ \E r \in files : /\ r.content_hash = sha256(b)
                        /\ r.current_path # last'.path
                        /\ fs[r.current_path].bytes = b

\* this step is a completed `op` whose walk yields two or more supported-kind
\* files with the bytes b
WalksCopies(op, b) ==
    /\ last'.op = op /\ last'.status = "ok"
    /\ Cardinality(DupIdx(last'.walk, fs, b)) >= 2

\* F holds exactly one row of content hash h and its current_path is p
OneRowAt(F, h, p) == \E r \in F : rows_by_hash(F, h) = {r} /\ r.current_path = p

SyncAfterIndexOfThree ==
    /\ last.op = "index" /\ last.status = "ok" /\ Cardinality(last.admitted) = 3
    /\ last'.op = "sync" /\ last'.status = "ok" /\ last'.root = last.directory
    /\ last'.recursive => last.recursive

\* C9 as stated: such a sync reports 3 new files and 0 moved.
C9_CountsAsStated ==
    [][SyncAfterIndexOfThree => last'.new = 3 /\ last'.moved = 0]_vars

\* C9 amended: such a sync reports 0 new files and 0 moved (the three
\* documents have rows at their paths).
C9_Counts ==
    [][SyncAfterIndexOfThree => last'.new = 0 /\ last'.moved = 0]_vars

\* C9 witness: a sync of /d right after `index /d` admitted three documents
\* reported 3 valid, 0 invalid, 0 new, 0 moved.
C9_Witness ==
    /\ last.op = "sync" /\ last.status = "ok"
    /\ last.after.op = "index" /\ last.after.status = "ok"
    /\ Cardinality(last.after.admitted) = 3
    /\ last.root = last.after.directory
    /\ last.valid = 3 /\ last.invalid = 0 /\ last.new = 0 /\ last.moved = 0

\* C10: after a sync of any root, every row that is still at the current_path
\* it had is valid exactly when that path had a file, wherever the path lies
\* and whatever is_valid was before.
C10_WholeStoreAudit ==
    [][SyncRuns =>
       \A r \in files :
         \A r2 \in rows_by_hash(files', r.content_hash) :
            r2.current_path = r.current_path
            => (r2.is_valid <=> exists(fs, r.current_path))]_vars

\* C10 witness: a sync of /e, under which no row has its path, left one row
\* invalid whose file is gone and confirmed a row that was invalid before.
C10_Witness ==
    /\ last.op = "sync" /\ last.root = "/e" /\ last.status = "ok"
    /\ last.invalid >= 1 /\ last.moved = 0
    /\ last.revalidated # {}
    /\ \A r \in files : /\ parent(r.current_path) # "/e"
                        /\ r.is_valid <=> exists(fs, r.current_path)

\* the content hashes that have a row
hashes(F) == {r.content_hash : r \in F}

\* the supported-kind files a walk of root yields whose content has no row
Untracked(fsx, F, root, recursive) ==
    {p \in glob(fsx, root, recursive) :
        /\ lower(suffix(p)) \in SUPPORTED_EXTENSIONS
        /\ rows_by_hash(F, sha256(fsx[p].bytes)) = {}}

\* C11: a sync leaves the set of content hashes with a row, and the index, as
\* they were; when it completes, `new` is the number of supported files under
\* the root whose content has no row (so the next sync counts them again).
C11_ReconcileNeverCreates ==
    [][last'.op = "sync"
       => /\ hashes(files') = hashes(files)
          /\ index' = index /\ ready' = ready
          /\ last'.status = "ok"
             => last'.new = Cardinality(Untracked(fs, files, last'.root,
                                                  last'.recursive))]_vars

\* C11 witness: two syncs of the same root in a row; both counted the same
\* untracked files as new and the files still have no row.
C11_Witness ==
    /\ last.op = "sync" /\ last.status = "ok" /\ last.new >= 1
    /\ last.after.op = "sync" /\ last.after.status = "ok"
    /\ last.after.root = last.root /\ last.after.recursive = last.recursive
    /\ last.after.new = last.new
    /\ Cardinality(Untracked(fs, files, last.root, last.recursive)) = last.new

\* the sync of this step as it stands when its loop reaches position i of walk
BeforeEntry(walk, i) == sync(files, fs, clock, SubSeq(walk, 1, i - 1))

\* the loop of this step's sync counts the file q as moved / as new
CountedMoved(walk, q) ==
    \E i \in 1..Len(walk) :
       /\ walk[i] = q
       /\ sync_step(BeforeEntry(walk, i), fs, q).moved = BeforeEntry(walk, i).moved + 1
CountedNew(walk, q) ==
    \E i \in 1..Len(walk) :
       /\ walk[i] = q
       /\ sync_step(BeforeEntry(walk, i), fs, q).new = BeforeEntry(walk, i).new + 1

\* this step is a completed sync whose walk yields the supported-kind file Q,
\* right after a tracked file was moved from P to Q
SyncFindsMoved(P, Q) ==
    /\ JustMoved(P, Q)
    /\ last'.op = "sync" /\ last'.status = "ok"
    /\ Q \in glob(fs, last'.root, last'.recursive)
    /\ lower(suffix(Q)) \in SUPPORTED_EXTENSIONS

\* the file at Q is counted once as moved, not as new, and the row of its
\* content ends valid at Q
ReclassifiedAsMoved(Q) ==
    /\ CountedMoved(last'.walk, Q)
    /\ ~CountedNew(last'.walk, Q)
    /\ \E r \in files' : /\ rows_by_hash(files', sha256(fs[Q].bytes)) = {r}
                         /\ r.is_valid /\ r.current_path = Q

\* C12 as stated: a sync that finds a tracked file moved from P to Q, every
\* other row still having its content at its current_path, counts it once as
\* moved, not as new, and leaves its row valid at Q.
C12_MovedNotNewAsStated ==
    [][\A P, Q \in Paths :
         /\ SyncFindsMoved(P, Q)
         /\ \A r \in files : r.content_hash # sha256(fs[Q].bytes)
                => sha256(fs[r.current_path].bytes) = r.content_hash
         => ReclassifiedAsMoved(Q)]_vars

\* C12 amended: the same, when the walk yields no other supported-kind file
\* with the same bytes.
C12_MovedNotNew ==
    [][\A P, Q \in Paths :
         /\ SyncFindsMoved(P, Q)
         /\ Duplicates(fs, last'.root, last'.recursive, Q, fs[Q].bytes) = {}
         => ReclassifiedAsMoved(Q)]_vars

\* C12 witness: the sync after a move counted one row invalid in its first
\* pass, then one file moved and none new, and the row is valid at the new
\* path.
C12_Witness ==
    /\ last.op = "sync" /\ last.status = "ok"
    /\ last.after.op = "move"
    /\ last.invalid = 1 /\ last.moved = 1 /\ last.new = 0
    /\ \E r \in files : /\ r.current_path = last.after.to
                        /\ r.content_hash = sha256(fs[last.after.to].bytes)
                        /\ r.is_valid
                        /\ r.last_seen_at = clock - 1

\* the entries of a walk that can be opened for reading
ReadableOnly(fsx, walk) ==
    LET Readable(p) == fsx[p].readable IN SelectSeq(walk, Readable)

\* C13: a sync whose walk meets an unreadable file skips it and goes on: it
\* completes, and its counts and the store are those of the same sync over the
\* readable files.
C13_UnreadableSkipped ==
    [][SyncRuns =>
       LET expected == sync(files, fs, clock, ReadableOnly(fs, last'.walk)) IN
       /\ last'.status = "ok"
       /\ files' = expected.files
       /\ last'.valid = expected.valid /\ last'.invalid = expected.invalid
       /\ last'.new = expected.new /\ last'.moved = expected.moved]_vars

\* C14: a sync of a directory that does not exist is refused before any
\* work: the store and the clock are as they were.
C14_MissingRootRefused ==
    [][last'.op = "sync" /\ last'.root \notin Dirs
       => /\ last'.status = "no_directory"
          /\ files' = files
          /\ clock' = clock]_vars

\* C14 witness: a sync of a missing directory was refused while a valid row's
\* file is gone; the row is still valid and no last_seen_at was refreshed.
C14_Witness ==
    /\ last.op = "sync" /\ last.status = "no_directory"
    /\ last.root \notin Dirs
    /\ \E r \in files : r.is_valid /\ ~exists(fs, r.current_path)
    /\ \A r \in files : r.last_seen_at = r.indexed_at

\* F holds a valid row of content hash h
HasValidRow(F, h) == \E r \in rows_by_hash(F, h) : r.is_valid

\* C15: index_file on a file whose content has a valid row returns None and
\* leaves every row as it was; a document is returned by index_file or index
\* only for content that had no valid row, and once per content in one index.
C15_AdmitIdempotent ==
    [][/\ last'.op = "index_file" /\ HasValidRow(files, compute_hash(fs, last'.path))
          => /\ last'.status = "ok" /\ last'.doc = None
             /\ files' = files /\ clock' = clock
       /\ last'.op = "index_file" /\ last'.doc # None
          => ~HasValidRow(files, last'.doc.content_hash)
       /\ last'.op = "index" /\ last'.status # "no_directory"
          => /\ last'.ndocs = Cardinality(last'.admitted)
             /\ \A h \in last'.admitted : ~HasValidRow(files, h)]_vars

\* C15 witness: index_file was called on a readable supported file with text
\* enough, at the current_path of the valid row of its content; it returned
\* None.
C15_Witness ==
    /\ last.op = "index_file" /\ last.status = "ok" /\ last.doc = None
    /\ lower(suffix(last.path)) \in SUPPORTED_EXTENSIONS
    /\ fs[last.path].readable
    /\ text_len(fs[last.path].bytes) >= last.min_text_length
    /\ \E r \in files : /\ r.content_hash = sha256(fs[last.path].bytes)
                        /\ r.current_path = last.path
                        /\ r.is_valid
                        /\ r.last_seen_at = r.indexed_at

\* C16: index_file on a file whose extracted text is shorter than
\* min_text_length returns None and leaves the store as it was.
C16_ShortTextNotAdmitted ==
    [][/\ last'.op = "index_file"
       /\ exists(fs, last'.path)
       /\ text_len(fs[last'.path].bytes) < last'.min_text_length
       => last'.doc = None /\ files' = files /\ clock' = clock]_vars

\* C16 witness: index_file was called on a readable supported file whose
\* content has no row and whose text is below the floor; it returned None and
\* the content still has no row.
C16_Witness ==
    /\ last.op = "index_file" /\ last.status = "ok" /\ last.doc = None
    /\ lower(suffix(last.path)) \in SUPPORTED_EXTENSIONS
    /\ fs[last.path].readable
    /\ text_len(fs[last.path].bytes) < last.min_text_length
    /\ rows_by_hash(files, sha256(fs[last.path].bytes)) = {}

\* C17: when index_file returns a document, the store has a valid row of the
\* file's content hash with current_path the admitted path, the document's
\* metadata carries that content hash, the suffix, the size and the path, and
\* the index is as it was (index_file builds nothing).
C17_AdmitResult ==
    [][last'.op = "index_file" /\ last'.doc # None
       => LET p == last'.path
              h == sha256(fs[p].bytes)
          IN /\ \E r \in files' : /\ rows_by_hash(files', h) = {r}
                                  /\ r.is_valid /\ r.current_path = p
                                  /\ last'.doc.file_record = r
             /\ last'.doc.content_hash = h
             /\ last'.doc.metadata.content_hash = h
             /\ last'.doc.metadata.type = lower(suffix(p))
             /\ last'.doc.metadata.size_bytes = st_size(fs[p].bytes)
             /\ last'.doc.metadata.source = p
             /\ index' = index /\ ready' = ready]_vars

\* C17 witness: index_file admitted a file whose content had an invalid row
\* elsewhere; the row is valid at the admitted path and no index was built.
C17_Witness ==
    /\ last.op = "index_file" /\ last.doc # None
    /\ last.doc.file_record \in files
    /\ last.doc.file_record.is_valid
    /\ last.doc.file_record.current_path = last.path
    /\ last.doc.file_record.original_path # last.path
    /\ last.doc.metadata.source = last.path
    /\ last.doc.metadata.content_hash = sha256(fs[last.path].bytes)

\* C18: `index` over a directory with an unreadable file skips it and goes
\* on: it completes, and every readable supported file of the walk whose text
\* meets the floor is admitted in this run or had a valid row already.
C18_BatchSurvivesFailure ==
    [][last'.op = "index" /\ last'.status # "no_directory"
       => /\ last'.status = "ok"
          /\ \A i \in 1..Len(last'.walk) :
               LET p == last'.walk[i] IN
               /\ lower(suffix(p)) \in SUPPORTED_EXTENSIONS
               /\ fs[p].readable
               /\ text_len(fs[p].bytes) >= DEFAULT_MIN_TEXT_LENGTH
               => \/ sha256(fs[p].bytes) \in last'.admitted
                  \/ HasValidRow(files, sha256(fs[p].bytes))]_vars

\* C19: add_file called again right after add_file, for the same path and the
\* same content hash, leaves one row of that hash, with indexed_at as the
\* first call left it.
C19_UpsertIdempotent ==
    [][/\ last.op = "add_file" /\ last.status = "ok"
       /\ last'.op = "add_file" /\ last'.status = "ok"
       /\ last'.path = last.path
       /\ last'.record.content_hash = last.record.content_hash
       => /\ rows_by_hash(files', last.record.content_hash) = {last'.record}
          /\ last'.record.indexed_at = last.record.indexed_at]_vars

\* C19 witness: two add_file calls in a row on the same file, the hash
\* computed both times; the first created the row, the second saw it again
\* later and kept its indexed_at.
C19_Witness ==
    /\ last.op = "add_file" /\ last.status = "ok" /\ last.hash = NoHash
    /\ last.after.op = "add_file" /\ last.after.status = "ok"
    /\ last.after.hash = NoHash /\ last.after.path = last.path
    /\ last.after.record.indexed_at = last.after.record.last_seen_at
    /\ last.record.indexed_at = last.after.record.indexed_at
    /\ last.record.last_seen_at > last.after.record.last_seen_at
    /\ rows_by_hash(files, last.record.content_hash) = {last.record}

\* C20: add_file on a path with no file fails with a not-found error and
\* leaves the store as it was.
C20_UpsertMissingFile ==
    [][last'.op = "add_file" /\ ~exists(fs, last'.path)
       => /\ last'.status = "not_found"
          /\ files' = files
          /\ clock' = clock]_vars

\* C20 witness: add_file was refused for a path whose file is gone, with the
\* content hash of a row given; the row is as admitted.
C20_Witness ==
    /\ last.op = "add_file" /\ last.status = "not_found"
    /\ ~exists(fs, last.path)
    /\ \E r \in files : /\ r.content_hash = last.hash
                        /\ r.current_path = last.path
                        /\ r.last_seen_at = r.indexed_at

\* C21: while a record exists its content_hash, original_path, file_type and
\* indexed_at never change, whatever operation runs; add_file on an existing
\* content_hash changes only current_path, last_seen_at and is_valid.
C21_ImmutableFields ==
    [][\A r \in files : \A r2 \in files' :
          r2.content_hash = r.content_hash =>
              /\ r2.original_path = r.original_path
              /\ r2.file_type = r.file_type
              /\ r2.indexed_at = r.indexed_at
              /\ (last'.op = "add_file" => r2.size_bytes = r.size_bytes)]_vars

\* add_file has moved an existing record to a file of another kind and size,
\* later than its admission
C21_Witness ==
    /\ last.op = "add_file"
    /\ last.status = "ok"
    /\ last.record.current_path = last.path
    /\ last.record.original_path # last.path
    /\ last.record.file_type # lower(suffix(last.path))
    /\ last.record.size_bytes # st_size(fs[last.path].bytes)
    /\ last.record.indexed_at < last.record.last_seen_at

\* C22: a search returns one result per engine hit, in the engine's order:
\* the i-th result carries the id, score and content hash of the i-th hit.
C22_ResolveOrderPreserving ==
    (last.op = "search" /\ last.status = "ok") =>
        /\ Len(last.results) = Len(last.hits)
        /\ \A i \in 1..Len(last.hits) :
               /\ last.results[i].id = last.hits[i].id
               /\ last.results[i].score = last.hits[i].score
               /\ last.results[i].content_hash = last.hits[i].metadata.content_hash

\* a search has resolved two hits of different documents
C22_Witness ==
    /\ last.op = "search"
    /\ last.status = "ok"
    /\ Len(last.hits) = 2
    /\ last.hits[1].id # last.hits[2].id
    /\ last.hits[1].metadata.content_hash # last.hits[2].metadata.content_hash

\* C23: a hit whose content hash has no row in the store, or whose metadata
\* has no content hash, is resolved to the source in its own metadata, and
\* the search returns a result for every hit.
C23_ResolverFallback ==
    (last.op = "searcher_search") =>
        /\ Len(last.results) = Len(last.hits)
        /\ \A i \in 1..Len(last.hits) :
               (\/ last.hits[i].metadata.content_hash = ""
                \/ rows_by_hash(files, last.hits[i].metadata.content_hash) = {})
               => last.results[i].current_path = last.hits[i].metadata.source

\* one search resolved a hit whose row had been deleted and a hit without a
\* content hash, while the store still held other rows
C23_Witness ==
    /\ last.op = "searcher_search"
    /\ files # {}
    /\ \E i, j \in 1..Len(last.hits) :
          /\ last.hits[i].metadata.content_hash # ""
          /\ rows_by_hash(files, last.hits[i].metadata.content_hash) = {}
          /\ last.results[i].current_path = last.hits[i].metadata.source
          /\ last.hits[j].metadata.content_hash = ""
          /\ last.results[j].current_path = PathX

\* C24: update_path on a content hash that has a row returns true and sets
\* that row's current_path to the given path, its last_seen_at to the present
\* and is_valid to true; the row's other fields and all other rows stay.
C24_SetLocationFrame ==
    [][(/\ nops' = nops + 1
        /\ last'.op = "update_path"
        /\ rows_by_hash(files, last'.hash) # {})
       => /\ last'.updated
          /\ \E r \in rows_by_hash(files, last'.hash) :
                /\ r.last_seen_at < clock
                /\ files' = (files \ {r}) \cup
                      {[r EXCEPT !.current_path = last'.path,
                                 !.last_seen_at = clock,
                                 !.is_valid = TRUE]}]_vars

\* update_path has moved one row away from its original path while another
\* row of the store is invalid
C24_Witness ==
    /\ last.op = "update_path"
    /\ last.updated
    /\ \E r \in files :
          /\ r.content_hash = last.hash
          /\ r.current_path = last.path
          /\ r.current_path # r.original_path
          /\ r.is_valid
          /\ \E o \in files : o.content_hash # r.content_hash /\ ~o.is_valid

\* C25: mark_invalid on a content hash that has a row returns true and sets
\* only that row's is_valid to false; its current_path, last_seen_at and
\* other fields, and all other rows, stay.
C25_InvalidateFrame ==
    [][(/\ nops' = nops + 1
        /\ last'.op = "mark_invalid"
        /\ rows_by_hash(files, last'.hash) # {})
       => /\ last'.updated
          /\ \E r \in rows_by_hash(files, last'.hash) :
                files' = (files \ {r}) \cup {[r EXCEPT !.is_valid = FALSE]}]_vars

\* mark_invalid has flagged a row that had been moved away from its original
\* path, and the other rows are valid
C25_Witness ==
    /\ last.op = "mark_invalid"
    /\ last.updated
    /\ \E r \in files :
          /\ r.content_hash = last.hash
          /\ ~r.is_valid
          /\ r.current_path # r.original_path
          /\ r.indexed_at < r.last_seen_at
          /\ \E o \in files : o.content_hash # r.content_hash /\ o.is_valid

\* C26: delete on a content hash that has a row returns true and removes
\* exactly that row: get_by_hash then finds nothing, the count of all rows is
\* one less, and the other rows are as they were.
C26_DeleteRemovesOne ==
    [][(/\ nops' = nops + 1
        /\ last'.op = "delete"
        /\ rows_by_hash(files, last'.hash) # {})
       => /\ last'.deleted
          /\ get_by_hash(files', last'.hash) = None
          /\ count(files', FALSE) = count(files, FALSE) - 1
          /\ files' = files \ rows_by_hash(files, last'.hash)]_vars

\* delete has removed one row of a store that still holds two
C26_Witness ==
    /\ last.op = "delete"
    /\ last.deleted
    /\ rows_by_hash(files, last.hash) = {}
    /\ count(files, FALSE) = 2

\* C27: update_path, mark_invalid and delete called with a content hash that
\* has no row return false and leave the store as it was; update_path inserts
\* nothing.
C27_UnknownIdentity ==
    [][(/\ nops' = nops + 1
        /\ last'.op \in {"update_path", "mark_invalid", "delete"}
        /\ rows_by_hash(files, last'.hash) = {})
       => /\ files' = files
          /\ IF last'.op = "delete" THEN ~last'.deleted ELSE ~last'.updated]_vars

\* update_path was called with a content hash that the store, which holds
\* other rows, does not know
C27_Witness ==
    /\ last.op = "update_path"
    /\ ~last.updated
    /\ files # {}
    /\ rows_by_hash(files, last.hash) = {}
    /\ rows_by_path(files, last.path) = {}

\* C28: deleting by path removes one row whose current_path is the given
\* path, valid or not, and no other row; when no row has that current_path
\* the call reports not found and the store stays as it was.
C28_DeleteByPath ==
    [][(nops' = nops + 1 /\ last'.op = "delete_path")
       => IF rows_by_path(files, last'.path) = {}
          THEN ~last'.deleted /\ files' = files
          ELSE /\ last'.deleted
               /\ \E r \in rows_by_path(files, last'.path) : files' = files \ {r}
               /\ (Cardinality(rows_by_path(files, last'.path)) = 1
                      => rows_by_path(files', last'.path) = {})]_vars

\* deleting by path has removed an invalid row, and the store keeps its
\* other rows
C28_Witness ==
    /\ last.op = "delete_path"
    /\ last.deleted
    /\ ~last.record.is_valid
    /\ last.record.current_path = last.path
    /\ rows_by_path(files, last.path) = {}
    /\ rows_by_hash(files, last.record.content_hash) = {}
    /\ files # {}

\* the rows list_all(valid_only) is to return
Matching(valid_only) == {r \in files : ~valid_only \/ r.is_valid}

occurs_in(name_query, text) ==
    \E i \in 0..(Len(text) - Len(name_query)) :
        SubSeq(text, i + 1, i + Len(name_query)) = name_query

\* the rows whose current_path contains name_query literally
Eligible(name_query) ==
    {r \in files : occurs_in(name_query, path_chars(r.current_path))}

\* C30: search_files(name_query, limit) returns at most limit rows, newest
\* indexed_at first, and exactly rows whose current_path contains name_query
\* as a literal substring, for every name_query, % and _ included: a row is
\* left out only when limit rows are returned.
C30_LiteralSubstring ==
    (last.op = "search_files") =>
        LET records == last.records
            returned == {records[i] : i \in 1..Len(records)}
        IN /\ Len(records) <= last.limit
           /\ Cardinality(returned) = Len(records)
           /\ \A i, j \in 1..Len(records) :
                  i < j => records[i].indexed_at >= records[j].indexed_at
           /\ returned \subseteq Eligible(last.name_query)
           /\ (Len(records) < last.limit => returned = Eligible(last.name_query))

\* the row of content hash h was written by the transaction that `last` names:
\* current_path, last_seen_at and is_valid together, or is_valid alone, or the
\* row removed
WrittenByOne(h, old, new, op, now) ==
    \/ /\ op.op = "add_file_write" /\ op.hash = h
       /\ \E r2 \in new :
             /\ new = {r2}
             /\ r2.current_path = op.path /\ r2.last_seen_at = op.now /\ r2.is_valid
             /\ old = {} => r2.original_path = op.path /\ r2.indexed_at = op.now
             /\ \A r \in old : r2 = [r EXCEPT !.current_path = op.path,
                                               !.last_seen_at = op.now,
                                               !.is_valid = TRUE]
    \/ /\ op.op = "update_path" /\ op.hash = h
       /\ \E r \in old : new = {[r EXCEPT !.current_path = op.path,
                                            !.last_seen_at = now,
                                            !.is_valid = TRUE]}
    \/ /\ op.op = "mark_invalid" /\ op.hash = h
       /\ \E r \in old : new = {[r EXCEPT !.is_valid = FALSE]}
    \/ /\ op.op = "delete" /\ op.hash = h
       /\ old # {} /\ new = {}

\* the row the last committed transaction wrote is the row the store holds
LastCommitWins ==
    /\ last.op = "add_file_write" =>
          \E r \in rows_by_hash(files, last.hash) :
             r.current_path = last.path /\ r.last_seen_at = last.now /\ r.is_valid
    /\ (last.op = "update_path" /\ last.updated) =>
          \E r \in rows_by_hash(files, last.hash) : r.current_path = last.path /\ r.is_valid
    /\ (last.op = "mark_invalid" /\ last.updated) =>
          \E r \in rows_by_hash(files, last.hash) : ~r.is_valid
    /\ last.op = "delete" => rows_by_hash(files, last.hash) = {}

\* C31: under any interleaving of concurrent add_file, update_path,
\* mark_invalid and delete calls every change of the store is the whole write
\* of one transaction to one row (current_path, last_seen_at and is_valid are
\* never written apart), and the store holds what the last transaction to
\* commit wrote.
C31_AtomicWrites ==
    /\ []LastCommitWins
    /\ [][files' # files =>
            \E h \in Hashes :
               /\ \A r \in files \cup files' :
                      r.content_hash # h => (r \in files /\ r \in files')
               /\ WrittenByOne(h, rows_by_hash(files, h), rows_by_hash(files', h),
                               last', clock)]_vars

\* two callers were inside add_file for the same content hash and different
\* paths at once; the one that read the clock first committed last, and the
\* row holds its path and its time
C31_Witness ==
    /\ last.op = "add_file_write"
    /\ \E w, v \in Workers :
          /\ w # v
          /\ last.worker = w
          /\ workers[w].pc = "add_file_read"
          /\ workers[v].pc = "add_file_read"
          /\ workers[v].hash = workers[w].hash
          /\ workers[v].path # workers[w].path
          /\ workers[w].now < workers[v].now
          /\ \E r \in rows_by_hash(files, last.hash) :
                r.current_path = workers[w].path /\ r.last_seen_at = workers[w].now

\* C32: the command line, the HTTP API and the interactive UI each look for
\* the index descriptor before they call the engine; without it they report
\* that the index is not ready, the engine is not called and nothing is raised.
C32_ReadyChecked ==
    ~ready =>
        /\ last.op = "search" => last.status = "not_ready"
        /\ last.op \in {"cli_search", "do_search"} =>
               ~last.engine /\ last.status \in {"not_ready", "no_query"}

\* the UI was asked to search with a query while no index had been built
C32_Witness ==
    /\ ~ready
    /\ last.op = "do_search"
    /\ last.status = "not_ready"
    /\ ~last.engine

\* C33: when two sync passes that ran at once over an unchanging disk have
\* both completed, every row whose current_path exists on disk is valid.
C33_ConcurrentSyncValid ==
    (\A w \in Workers : workers[w].pc = "done" /\ workers[w].op = "sync"
                         /\ workers[w].status = "ok")
    => \A r \in files : exists(fs, r.current_path) => r.is_valid

\* this step is a `sync` that completes right after a completed `sync` of the
\* same root with the same walk order, the disk unchanged in between
SyncTwiceInARow ==
    /\ last.op = "sync" /\ last.status = "ok"
    /\ nops' = nops + 1
    /\ last'.op = "sync" /\ last'.status = "ok"
    /\ last'.root = last.root
    /\ last'.recursive = last.recursive
    /\ last'.walk = last.walk

\* C34: a sync run twice in a row on an unchanged disk with the same walk
\* order reports 0 moved the second time and leaves current_path and is_valid
\* of every row as the first run left them, also when two files under the
\* root hold the same bytes.
C34_SyncFixpoint ==
    [][SyncTwiceInARow =>
         /\ last'.moved = 0
         /\ \A r \in files : \E r2 \in rows_by_hash(files', r.content_hash) :
                r2.current_path = r.current_path /\ r2.is_valid = r.is_valid
         /\ \A r2 \in files' : rows_by_hash(files, r2.content_hash) # {}]_vars

\* every content hash with a valid row in F has a document in the index X
IndexCovers(F, X) ==
    \A r \in F : r.is_valid => \E m \in X : m.content_hash = r.content_hash

\* C35: an `index` run, completed or aborted between admission and build,
\* keeps store and index consistent: when every content hash with a valid row
\* was in the index before the run, every one is in the most recently built
\* index after it.
C35_StoreIndexConsistent ==
    [][(last'.op = "index" /\ nops' = nops + 1 /\ IndexCovers(files, index))
       => IndexCovers(files', index')]_vars

\* C36: when two callers run index_file concurrently on files with the same
\* content, at most one of the two calls returns an admitted document.
C36_AdmittedOnce ==
    \A w1, w2 \in Workers :
       (/\ w1 # w2
        /\ workers[w1].pc = "done" /\ workers[w1].op = "index_file"
        /\ workers[w2].pc = "done" /\ workers[w2].op = "index_file"
        /\ workers[w1].doc # None /\ workers[w2].doc # None)
       => workers[w1].doc.content_hash # workers[w2].doc.content_hash

\* C37: add_file of an existing file returns the record it wrote: never None,
\* with the upserted content hash, the given path and is_valid true, also when
\* other callers delete, invalidate or move the same hash concurrently.
C37_UpsertReturnsWritten ==
    \A w \in Workers :
       (workers[w].pc = "done" /\ workers[w].op = "add_file"
        /\ workers[w].status = "ok")
       => /\ workers[w].record # None
          /\ workers[w].record.content_hash = workers[w].hash
          /\ workers[w].record.current_path = workers[w].path
          /\ workers[w].record.is_valid

\* the sequence seq without its first n elements
drop(seq, n) == SubSeq(seq, n + 1, Len(seq))

\* C38: list_all(valid_only, offset=k) called without a limit returns the
\* newest-first listing with its first k records skipped.
C38_OffsetWithoutLimit ==
    (last.op = "list_all" /\ last.limit = NoArg /\ last.offset # NoArg)
    => last.records = drop(list_all(files, last.valid_only), last.offset)

\* C39: after any sequence of Prev, Next, filter-change and delete clicks the
\* page state is at least 1 and at most the total number of pages shown.
C39_PageWithinBounds ==
    last.op \in {"filter_change", "prev", "next", "delete", "sync"}
    => (1 <= page_state /\ page_state <= last.total_pages)

Spec == Init /\ [][Next]_vars
SpecSearch == Init /\ [][SearchNext]_vars
SpecStore == Init /\ [][StoreNext]_vars
SpecResolve == Init /\ [][ResolveNext]_vars
SpecQuery == QueryInit /\ [][QueryNext]_vars
SpecConcStore == Init /\ [][ConcStoreNext]_vars
SpecFrontEnd == Init /\ [][FrontEndNext]_vars
SpecConcSync == Init /\ [][ConcSyncNext]_vars
SpecConcAdmit == Init /\ [][ConcAdmitNext]_vars
SpecUi == QueryInit /\ [][UiNext]_vars
====
